---- MODULE Spec2Model ----
(***************************************************************************)
(* Token-lifecycle subsystem of the authentication API: startup            *)
(* configuration validation, dual-token issuance, the access and refresh   *)
(* guards, refresh rotation and logout.                                    *)
(*                                                                         *)
(* Time is the Unix clock in whole seconds (the resolution of iat/exp).    *)
(* A signed token is a record of its wire shape, its claims and its HMAC;  *)
(* the HMAC of (secret, claims) is the pair itself, so two tokens are the  *)
(* same string exactly when header, claims and signing secret agree.       *)
(***************************************************************************)
EXTENDS Integers, Sequences, FiniteSets, TLC

VARIABLES env, boot, users, nextId, now, known, req, resp, spent, db, signups, client

vars == <<env, boot, users, nextId, now, known, req, resp, spent, db, signups, client>>

----------------------------------------------------------------------------
(* Bounds of the model *)

MaxTime == 3
MaxUsers == 1
MaxKnown == 1
MaxSignUps == 2
MaxAttempts == 2

----------------------------------------------------------------------------
(* Environment variables: <<>> is an unset variable, <<v>> is the value v *)

Unset == <<>>

IsSet(v) == v # Unset

ShortSecret == "too-short-secret"
SecretA == "access-secret-0123456789-0123456789"
SecretB == "refresh-secret-0123456789-012345678"

\* a time string such as '1h' is the pair of its digits and its unit letter
TimeStr(n, u) == [n |-> n, unit |-> u]

MinSecretLength == 32

TimeUnits == {"s", "m", "h", "d", "w", "y"}

Environment == {"development", "production", "test", "staging"}

\* value || fallback on an environment variable
OrDefault(v, d) == IF IsSet(v) THEN v[1] ELSE d

\* a secret check without @MinLength(32)
SecretValid_AnyLength(v) == IsSet(v)

\* @IsString() @MinLength(32) on JWT_SECRET and JWT_REFRESH_SECRET
SecretValid(v) == IsSet(v) /\ Len(v[1]) >= MinSecretLength

\* @Matches(/^\d+[smhdwy]$/) with the class default for an unset variable
ExpiresInValid(v, d) == OrDefault(v, d).unit \in TimeUnits /\ OrDefault(v, d).n \in Nat

\* validate(config): TRUE when validateSync reports no error
validate(e) ==
    /\ IsSet(e.MONGODB_URI) /\ Len(e.MONGODB_URI[1]) > 0
    /\ SecretValid(e.JWT_SECRET)
    /\ ExpiresInValid(e.JWT_EXPIRES_IN, TimeStr(1, "h"))
    /\ SecretValid(e.JWT_REFRESH_SECRET)
    /\ ExpiresInValid(e.JWT_REFRESH_EXPIRES_IN, TimeStr(7, "d"))
    /\ OrDefault(e.NODE_ENV, "development") \in Environment

\* configuration(): the namespaced values ConfigService.get reads
configuration(e) ==
    [ nodeEnv |-> OrDefault(e.NODE_ENV, "development"),
      jwt |-> [ secret |-> e.JWT_SECRET,
                expiresIn |-> OrDefault(e.JWT_EXPIRES_IN, TimeStr(1, "h")),
                refreshSecret |-> e.JWT_REFRESH_SECRET,
                refreshExpiresIn |-> OrDefault(e.JWT_REFRESH_EXPIRES_IN, TimeStr(7, "d")) ] ]

config == configuration(env)

\* secretOrKey of JwtStrategy: jwt.secret, or the constructor throws
JwtStrategySecretOk(c) == IsSet(c.jwt.secret) /\ Len(c.jwt.secret[1]) > 0

\* secretOrKey of RefreshTokenStrategy: jwt.refreshSecret, or the constructor throws
RefreshStrategySecretOk(c) == IsSet(c.jwt.refreshSecret) /\ Len(c.jwt.refreshSecret[1]) > 0

\* new JwtStrategy(...): constructed, or the Error it throws
JwtStrategyConstructor(c) ==
    IF JwtStrategySecretOk(c) THEN [threw |-> FALSE, message |-> ""]
    ELSE [threw |-> TRUE, message |-> "JWT secret is not configured"]

\* new RefreshTokenStrategy(...): constructed, or the Error it throws
RefreshTokenStrategyConstructor(c) ==
    IF RefreshStrategySecretOk(c) THEN [threw |-> FALSE, message |-> ""]
    ELSE [threw |-> TRUE, message |-> "Refresh secret is not configured"]

----------------------------------------------------------------------------
(* Token codec (HS256 JWT) *)

\* seconds in a time string, as the signer converts it
UnitSeconds(u) ==
    CASE u = "s" -> 1
      [] u = "m" -> 60
      [] u = "h" -> 3600
      [] u = "d" -> 86400
      [] u = "w" -> 604800
      [] OTHER -> 31557600

SpanSeconds(ts) == ts.n * UnitSeconds(ts.unit)

ZeroClaims == [sub |-> 0, email |-> "", iat |-> 0, exp |-> 0]

\* no string at all (undefined)
NoToken == [wire |-> "none", claims |-> ZeroClaims, sig |-> <<>>]

\* the empty string ''
EmptyString == [wire |-> "empty", claims |-> ZeroClaims, sig |-> <<>>]

\* a string that is not three base64url segments, e.g. 'invalid_token'
Malformed == [wire |-> "malformed", claims |-> ZeroClaims, sig |-> <<>>]

HS256(secret, claims) == <<secret, claims>>

\* a signer that takes expiresIn as the expiry itself, not as a span from now
Sign_AbsoluteExpiry(payload, secret, expiresIn, t) ==
    LET claims == [ sub |-> payload.sub, email |-> payload.email,
                    iat |-> t, exp |-> SpanSeconds(expiresIn) ]
    IN  [wire |-> "jwt", claims |-> claims, sig |-> HS256(secret, claims)]

\* jwtService.sign(payload, {secret, expiresIn}) at clock t
Sign(payload, secret, expiresIn, t) ==
    LET claims == [ sub |-> payload.sub, email |-> payload.email,
                    iat |-> t, exp |-> t + SpanSeconds(expiresIn) ]
    IN  [wire |-> "jwt", claims |-> claims, sig |-> HS256(secret, claims)]

\* jwt.verify(token, secretOrKey, {ignoreExpiration}) at clock t
Verify(token, secret, ignoreExpiration, t) ==
    IF token.wire # "jwt" THEN "malformed"
    ELSE IF token.sig # HS256(secret, token.claims) THEN "invalid signature"
    ELSE IF ~ignoreExpiration /\ t >= token.claims.exp THEN "expired"
    ELSE "ok"

\* JS truthiness of an optional string
Truthy(tok) == tok.wire \notin {"none", "empty"}

----------------------------------------------------------------------------
(* UserStore *)

Emails == {"a@b.com", "A@B.com"}

ToLower(s) == IF s = "A@B.com" THEN "a@b.com" ELSE s

Passwords == {"Secur3!pass", "Wr0ng!pass"}

\* bcrypt.hash / bcrypt.compare
Hash(pw) == <<"bcrypt", pw>>

NullDoc == [id |-> 0, email |-> "", name |-> "", password |-> <<>>]

\* a query rejected by the database driver (connection lost, timeout, ...)
DriverError == [id |-> -1, email |-> "", name |-> "", password |-> <<>>]

\* the collection as seen while the database cannot be reached
Unavailable == {DriverError}

\* the collection as the next query sees it
Store == IF db = "up" THEN users ELSE Unavailable

\* findByEmail that queries the email as typed, without toLowerCase()
findByEmail_CaseSensitive(store, email) ==
    IF store = Unavailable THEN DriverError
    ELSE IF \E u \in store : u.email = email
    THEN CHOOSE u \in store : u.email = email
    ELSE NullDoc

\* userModel.findOne({email: email.toLowerCase()}): NullDoc when none, and
\* DriverError when the query rejects
findByEmail(store, email) ==
    IF store = Unavailable THEN DriverError
    ELSE IF \E u \in store : u.email = ToLower(email)
    THEN CHOOSE u \in store : u.email = ToLower(email)
    ELSE NullDoc

\* userModel.findById(id), throwing NotFoundException when none; doc is
\* DriverError when what was thrown is the driver's rejection
findById(store, id) ==
    IF store = Unavailable THEN [threw |-> TRUE, doc |-> DriverError]
    ELSE IF \E u \in store : u.id = id
    THEN [threw |-> FALSE, doc |-> CHOOSE u \in store : u.id = id]
    ELSE [threw |-> TRUE, doc |-> NullDoc]

validatePassword(doc, pw) == doc.password = Hash(pw)

\* new userModel({...dto, password: hashed}) with the schema's lowercase email
create(id, dto) ==
    [id |-> id, email |-> ToLower(dto.email), name |-> dto.name, password |-> Hash(dto.password)]

NoEntity == [_id |-> 0, email |-> "", name |-> ""]

\* toUserEntity that copies the whole document
toUserEntity_WholeDocument(doc) ==
    [_id |-> doc.id, email |-> doc.email, name |-> doc.name, password |-> doc.password]

toUserEntity(doc) == [_id |-> doc.id, email |-> doc.email, name |-> doc.name]

\* save on a collection without the unique index
save_NoUniqueIndex(store, doc) ==
    IF store = Unavailable
    THEN [threw |-> TRUE, store |-> store]
    ELSE [threw |-> FALSE, store |-> store \cup {doc}]

\* createdUser.save() under the unique index on email: it rejects with a
\* duplicate-key error when a document with that email is already stored
save(store, doc) ==
    IF store = Unavailable \/ (\E u \in store : u.email = doc.email)
    THEN [threw |-> TRUE, store |-> store]
    ELSE [threw |-> FALSE, store |-> store \cup {doc}]

----------------------------------------------------------------------------
(* Requests *)

\* the Authorization header: absent, or a scheme with a credential
NoHeader == [scheme |-> "none", token |-> NoToken]

Bearer(tok) == [scheme |-> "Bearer", token |-> tok]

Basic(tok) == [scheme |-> "Basic", token |-> tok]

\* req.cookies: undefined, or an object that may hold refresh_token
CookiesUndefined == [defined |-> FALSE, refresh_token |-> NoToken]

CookiesEmpty == [defined |-> TRUE, refresh_token |-> NoToken]

CookieJar(tok) == [defined |-> TRUE, refresh_token |-> tok]

\* req.cookies?.refresh_token
CookieRefreshToken(cookies) == IF cookies.defined THEN cookies.refresh_token ELSE NoToken

\* ExtractJwt.fromAuthHeaderAsBearerToken()
fromAuthHeaderAsBearerToken(header) == IF header.scheme = "Bearer" THEN header.token ELSE NoToken

NoUser == [userId |-> 0, email |-> "", refreshToken |-> NoToken]

Unauthorized(msg) == [ok |-> FALSE, status |-> 401, message |-> msg, user |-> NoUser]

Authenticated(user) == [ok |-> TRUE, status |-> 200, message |-> "", user |-> user]

----------------------------------------------------------------------------
(* AccessRequired: JwtAuthGuard with JwtStrategy *)

JwtStrategyOptions(c) == [ignoreExpiration |-> FALSE, secretOrKey |-> c.jwt.secret[1]]

\* JwtStrategy.validate without the store lookup
JwtStrategy_validate_NoLookup(store, payload) ==
    Authenticated([userId |-> payload.sub, email |-> payload.email, refreshToken |-> NoToken])

JwtStrategy_validate(store, payload) ==
    IF findById(store, payload.sub).threw
    THEN Unauthorized("Unauthorized")
    ELSE Authenticated([userId |-> payload.sub, email |-> payload.email, refreshToken |-> NoToken])

JwtAuthGuard(store, c, header, t) ==
    LET token == fromAuthHeaderAsBearerToken(header)
        opts == JwtStrategyOptions(c)
    IN  IF ~Truthy(token) THEN Unauthorized("Unauthorized")
        ELSE IF Verify(token, opts.secretOrKey, opts.ignoreExpiration, t) # "ok"
        THEN Unauthorized("Unauthorized")
        ELSE JwtStrategy_validate(store, token.claims)

----------------------------------------------------------------------------
(* RefreshRequired: RefreshTokenAuthGuard with RefreshTokenStrategy *)

\* RefreshTokenStrategy constructed with ignoreExpiration: true
RefreshTokenStrategyOptions_IgnoreExpiration(c) ==
    [ignoreExpiration |-> TRUE, secretOrKey |-> c.jwt.refreshSecret[1]]

RefreshTokenStrategyOptions(c) == [ignoreExpiration |-> FALSE, secretOrKey |-> c.jwt.refreshSecret[1]]

\* RefreshTokenStrategy.validate refusing a token that a refresh already rotated
RefreshTokenStrategy_validate_SingleUse(store, cookies, payload) ==
    LET refreshToken == CookieRefreshToken(cookies)
    IN  IF ~Truthy(refreshToken) THEN Unauthorized("Refresh token not found")
        ELSE IF findById(store, payload.sub).threw
                  \/ (spent.how = "rotated" /\ spent.tok = refreshToken)
        THEN Unauthorized("Invalid refresh token")
        ELSE Authenticated([userId |-> payload.sub, email |-> payload.email,
                            refreshToken |-> refreshToken])

\* RefreshTokenStrategy.validate refusing a token that was logged out
RefreshTokenStrategy_validate_Denylist(store, cookies, payload) ==
    LET refreshToken == CookieRefreshToken(cookies)
    IN  IF ~Truthy(refreshToken) THEN Unauthorized("Refresh token not found")
        ELSE IF findById(store, payload.sub).threw
                  \/ (spent.how = "logout" /\ spent.tok = refreshToken)
        THEN Unauthorized("Invalid refresh token")
        ELSE Authenticated([userId |-> payload.sub, email |-> payload.email,
                            refreshToken |-> refreshToken])

\* RefreshTokenStrategy.validate that returns the claims without the raw token
RefreshTokenStrategy_validate_ClaimsOnly(store, cookies, payload) ==
    LET refreshToken == CookieRefreshToken(cookies)
    IN  IF ~Truthy(refreshToken) THEN Unauthorized("Refresh token not found")
        ELSE IF findById(store, payload.sub).threw
        THEN Unauthorized("Invalid refresh token")
        ELSE Authenticated([userId |-> payload.sub, email |-> payload.email,
                            refreshToken |-> NoToken])

RefreshTokenStrategy_validate(store, cookies, payload) ==
    LET refreshToken == CookieRefreshToken(cookies)
    IN  IF ~Truthy(refreshToken) THEN Unauthorized("Refresh token not found")
        ELSE IF findById(store, payload.sub).threw
        THEN Unauthorized("Invalid refresh token")
        ELSE Authenticated([userId |-> payload.sub, email |-> payload.email,
                            refreshToken |-> refreshToken])

RefreshTokenAuthGuard(store, c, cookies, t) ==
    LET token == CookieRefreshToken(cookies)
        opts == RefreshTokenStrategyOptions(c)
    IN  IF ~Truthy(token) THEN Unauthorized("Unauthorized")
        ELSE IF Verify(token, opts.secretOrKey, opts.ignoreExpiration, t) # "ok"
        THEN Unauthorized("Unauthorized")
        ELSE RefreshTokenStrategy_validate(store, cookies, token.claims)

----------------------------------------------------------------------------
(* Credentials: LocalAuthGuard with LocalStrategy *)

\* AuthService.validateUser: the document, NullDoc for null, or DriverError
\* when findByEmail rejects (nothing here catches it)
validateUser(store, email, password) ==
    LET user == findByEmail(store, email)
    IN  IF user = DriverError THEN DriverError
        ELSE IF user # NullDoc /\ validatePassword(user, password) THEN user ELSE NullDoc

\* an exception that is not an HttpException reaches the framework's default
\* handler: 500 'Internal server error'
InternalServerError == [status |-> 500, message |-> "Internal server error"]

\* LocalStrategy.validate that tells an unknown email from a wrong password
LocalStrategy_validate_UserNotFound(store, email, password) ==
    IF validateUser(store, email, password) = DriverError
    THEN [ok |-> FALSE, status |-> InternalServerError.status,
          message |-> InternalServerError.message, doc |-> NullDoc]
    ELSE IF findByEmail(store, email) = NullDoc
    THEN [ok |-> FALSE, status |-> 401, message |-> "User not found", doc |-> NullDoc]
    ELSE IF validateUser(store, email, password) = NullDoc
    THEN [ok |-> FALSE, status |-> 401, message |-> "Invalid email or password", doc |-> NullDoc]
    ELSE [ok |-> TRUE, status |-> 200, message |-> "", doc |-> validateUser(store, email, password)]

LocalStrategy_validate(store, email, password) ==
    IF validateUser(store, email, password) = DriverError
    THEN [ok |-> FALSE, status |-> InternalServerError.status,
          message |-> InternalServerError.message, doc |-> NullDoc]
    ELSE IF validateUser(store, email, password) = NullDoc
    THEN [ok |-> FALSE, status |-> 401, message |-> "Invalid email or password", doc |-> NullDoc]
    ELSE [ok |-> TRUE, status |-> 200, message |-> "", doc |-> validateUser(store, email, password)]

----------------------------------------------------------------------------
(* AuthService *)

\* default sign options of the JWT module: the access secret and lifetime
JwtModuleOptions(c) == [secret |-> c.jwt.secret[1], expiresIn |-> c.jwt.expiresIn]

NoBody == [user |-> NoEntity, access_token |-> NoToken]

\* generateAuthResponse that signs no refresh token
generateAuthResponse_AccessOnly(c, user, t) ==
    LET payload == [email |-> user.email, sub |-> user.id]
        accessToken == Sign(payload, JwtModuleOptions(c).secret, JwtModuleOptions(c).expiresIn, t)
    IN  [ ok |-> TRUE, status |-> 200, message |-> "",
          response |-> [user |-> toUserEntity(user), access_token |-> accessToken],
          refreshToken |-> NoToken ]

generateAuthResponse(c, user, t) ==
    LET payload == [email |-> user.email, sub |-> user.id]
        accessToken == Sign(payload, JwtModuleOptions(c).secret, JwtModuleOptions(c).expiresIn, t)
        refreshToken == Sign(payload, c.jwt.refreshSecret[1], c.jwt.refreshExpiresIn, t)
    IN  [ ok |-> TRUE, status |-> 200, message |-> "",
          response |-> [user |-> toUserEntity(user), access_token |-> accessToken],
          refreshToken |-> refreshToken ]

Failure(status, msg) ==
    [ok |-> FALSE, status |-> status, message |-> msg, response |-> NoBody, refreshToken |-> NoToken]

signIn(c, user, t) == generateAuthResponse(c, user, t)

\* refreshTokens that issues from the claims, without resolving the subject
refreshTokens_FromClaims(store, c, userId, email, t) ==
    generateAuthResponse(c, [id |-> userId, email |-> email, name |-> "", password |-> <<>>], t)

\* refreshTokens without its try/catch: the NotFoundException reaches the caller
refreshTokens_Rethrow(store, c, userId, email, t) ==
    IF findById(store, userId).threw
    THEN Failure(404, "User not found")
    ELSE generateAuthResponse(c, findById(store, userId).doc, t)

refreshTokens(store, c, userId, email, t) ==
    IF findById(store, userId).threw
    THEN Failure(401, "Invalid refresh token")
    ELSE generateAuthResponse(c, findById(store, userId).doc, t)

----------------------------------------------------------------------------
(* AuthController: cookies *)

NoCookie ==
    [ action |-> "none", name |-> "", value |-> NoToken, httpOnly |-> FALSE,
      secure |-> FALSE, sameSite |-> "", maxAge |-> 0, path |-> "" ]

\* res.cookie with httpOnly: true and sameSite: 'strict' in every environment
SetRefreshCookie_AlwaysStrict(c, refreshToken) ==
    [ action |-> "set", name |-> "refresh_token", value |-> refreshToken,
      httpOnly |-> TRUE,
      secure |-> (c.nodeEnv = "production"),
      sameSite |-> "strict",
      maxAge |-> 7 * 24 * 60 * 60 * 1000,
      path |-> "/" ]

\* res.cookie('refresh_token', refreshToken, {...})
SetRefreshCookie(c, refreshToken) ==
    [ action |-> "set", name |-> "refresh_token", value |-> refreshToken,
      httpOnly |-> (c.nodeEnv = "production"),
      secure |-> (c.nodeEnv = "production"),
      sameSite |-> IF c.nodeEnv = "production" THEN "strict" ELSE "lax",
      maxAge |-> 7 * 24 * 60 * 60 * 1000,
      path |-> "/" ]

\* res.clearCookie with httpOnly: true and sameSite: 'strict' in every environment
ClearRefreshCookie_AlwaysStrict(c) ==
    [ action |-> "clear", name |-> "refresh_token", value |-> NoToken,
      httpOnly |-> TRUE,
      secure |-> (c.nodeEnv = "production"),
      sameSite |-> "strict",
      maxAge |-> 0,
      path |-> "/" ]

\* res.clearCookie('refresh_token', {...})
ClearRefreshCookie(c) ==
    [ action |-> "clear", name |-> "refresh_token", value |-> NoToken,
      httpOnly |-> (c.nodeEnv = "production"),
      secure |-> (c.nodeEnv = "production"),
      sameSite |-> IF c.nodeEnv = "production" THEN "strict" ELSE "lax",
      maxAge |-> 0,
      path |-> "/" ]

\* logout that verifies the refresh token before clearing the cookie
logout_Verifying(c, cookies) ==
    IF ~Truthy(CookieRefreshToken(cookies))
    THEN [status |-> 401, message |-> "No refresh token found", cookie |-> NoCookie]
    ELSE IF Verify(CookieRefreshToken(cookies), c.jwt.refreshSecret[1], FALSE, now) # "ok"
    THEN [status |-> 401, message |-> "Invalid refresh token", cookie |-> NoCookie]
    ELSE [status |-> 200, message |-> "Logged out successfully", cookie |-> ClearRefreshCookie(c)]

\* logout that clears the cookie before it looks for one
logout_ClearFirst(c, cookies) ==
    IF ~Truthy(CookieRefreshToken(cookies))
    THEN [status |-> 401, message |-> "No refresh token found", cookie |-> ClearRefreshCookie(c)]
    ELSE [status |-> 200, message |-> "Logged out successfully", cookie |-> ClearRefreshCookie(c)]

\* AuthController.logout: the status, message and cookie instruction
logout(c, cookies) ==
    IF ~Truthy(CookieRefreshToken(cookies))
    THEN [status |-> 401, message |-> "No refresh token found", cookie |-> NoCookie]
    ELSE [status |-> 200, message |-> "Logged out successfully", cookie |-> ClearRefreshCookie(c)]

----------------------------------------------------------------------------
(* UsersService / AuthService handlers that touch the store *)

\* AuthService.signUp after its existence check: usersService.create, then
\* generateAuthResponse; a rejected save is not caught
signUpCreate(store, c, id, dto, t) ==
    LET r == save(store, create(id, dto))
    IN  IF r.threw
        THEN [out |-> Failure(InternalServerError.status, InternalServerError.message),
              store |-> store]
        ELSE [out |-> [generateAuthResponse(c, create(id, dto), t) EXCEPT !.status = 201],
              store |-> r.store]

\* AuthService.signUp: the outcome and the store it leaves
signUp(store, c, id, dto, t) ==
    IF findByEmail(store, dto.email) = DriverError
    THEN [out |-> Failure(InternalServerError.status, InternalServerError.message),
          store |-> store]
    ELSE IF findByEmail(store, dto.email) # NullDoc
    THEN [out |-> Failure(409, "User with this email already exists"), store |-> store]
    ELSE signUpCreate(store, c, id, dto, t)

\* userModel.findByIdAndUpdate(id, dto, {new: true}), throwing
\* NotFoundException when none; a dto without a name changes nothing
update(store, id, dto) ==
    IF store = Unavailable THEN [threw |-> TRUE, doc |-> DriverError, store |-> store]
    ELSE IF \E u \in store : u.id = id
    THEN LET old == CHOOSE u \in store : u.id = id
             new == IF IsSet(dto.name) THEN [old EXCEPT !.name = dto.name[1]] ELSE old
         IN  [threw |-> FALSE, doc |-> new, store |-> (store \ {old}) \cup {new}]
    ELSE [threw |-> TRUE, doc |-> NullDoc, store |-> store]

\* UsersService.updateProfile behind UsersController.updateProfile
updateProfile(store, userId, dto) ==
    LET r == update(store, userId, dto)
    IN  IF r.threw /\ r.doc = DriverError
        THEN [status |-> InternalServerError.status, message |-> InternalServerError.message,
              user |-> NoEntity, store |-> store]
        ELSE IF r.threw
        THEN [status |-> 404, message |-> "User not found", user |-> NoEntity, store |-> store]
        ELSE [status |-> 200, message |-> "", user |-> toUserEntity(r.doc), store |-> r.store]

\* UsersService.getProfile behind UsersController.getProfile
getProfile(store, userId) ==
    IF findById(store, userId).threw /\ findById(store, userId).doc = DriverError
    THEN [status |-> InternalServerError.status, message |-> InternalServerError.message,
          user |-> NoEntity]
    ELSE IF findById(store, userId).threw
    THEN [status |-> 404, message |-> "User not found", user |-> NoEntity]
    ELSE [status |-> 200, message |-> "", user |-> toUserEntity(findById(store, userId).doc)]

----------------------------------------------------------------------------
(* State *)

\* the request in flight between its guard and its handler
Idle == [op |-> "none", user |-> NoUser, doc |-> NullDoc]

\* what was true of the credential a guard or logout was handed, when it ran
NoFacts ==
    [ wire |-> "none", sigOk |-> FALSE, clock |-> "none", subjectLive |-> FALSE,
      issuedAs |-> {}, reuse |-> FALSE, afterLogout |-> FALSE, prior |-> NoToken,
      fault |-> FALSE ]

\* the last guard decision or HTTP response
NoResp ==
    [ op |-> "none", stage |-> "none", status |-> 0, message |-> "",
      body |-> NoBody, cookie |-> NoCookie, user |-> NoUser, facts |-> NoFacts ]

\* the sign-up requests that may run at once; signups holds the ones that have
\* started, each between its existence check and its create, or answered
Procs == 1 .. MaxSignUps

NoDto == [email |-> "", name |-> "", password |-> ""]

NoSignUp ==
    [ pc |-> "idle", dto |-> NoDto, raced |-> FALSE, out |-> Failure(0, ""), cookie |-> NoCookie ]

\* the refresh token most recently rotated or logged out, and what rotation gave
NoSpent == [how |-> "none", tok |-> NoToken, issued |-> NoToken]

KnownTokens == {k.tok : k \in known}

\* a known token with its signature segment altered, or its expiry pushed out
Tampered ==
    {[tok EXCEPT !.sig = <<"flipped", tok.claims>>] : tok \in KnownTokens}
        \cup {[tok EXCEPT !.claims.exp = tok.claims.exp + 1] : tok \in KnownTokens}

Presentable == KnownTokens \cup Tampered \cup {Malformed, EmptyString}

Headers == {NoHeader, Basic(Malformed)} \cup {Bearer(tok) : tok \in Presentable}

Cookies == {CookiesUndefined, CookiesEmpty} \cup {CookieJar(tok) : tok \in Presentable}

\* the tokens of an auth response, tagged with the keyspace they were issued in
Issued(out) ==
    IF out.ok
    THEN {[kind |-> "access", tok |-> out.response.access_token],
          [kind |-> "refresh", tok |-> out.refreshToken]}
    ELSE {}

\* clients keep any of the tokens they are handed, within the bound
Learn(new) ==
    \E keep \in SUBSET new :
        /\ Cardinality(known \cup keep) <= MaxKnown
        /\ known' = known \cup keep

Facts(presented, secret) ==
    [ wire |-> presented.wire,
      sigOk |-> (presented.wire = "jwt" /\ presented.sig = <<secret, presented.claims>>),
      clock |-> IF presented.wire # "jwt" THEN "none"
                ELSE IF now < presented.claims.exp THEN "before"
                ELSE IF now = presented.claims.exp THEN "at" ELSE "past",
      subjectLive |-> (\E u \in users : u.id = presented.claims.sub),
      issuedAs |-> {k.kind : k \in {x \in known : x.tok = presented}},
      reuse |-> (presented \in KnownTokens /\ spent.how = "rotated" /\ spent.tok = presented),
      afterLogout |-> (presented \in KnownTokens /\ spent.how = "logout" /\ spent.tok = presented),
      prior |-> IF presented \in KnownTokens /\ spent.how = "rotated" /\ spent.tok = presented
                THEN spent.issued ELSE NoToken,
      fault |-> (db = "down") ]

\* what was true of the email and password LocalStrategy was handed: whether
\* the email is registered and whether the password is that user's
CredentialFacts(email, password) ==
    [ NoFacts EXCEPT
        !.wire = "credentials",
        !.subjectLive = (\E u \in users : u.email = ToLower(email)),
        !.sigOk = (\E u \in users : u.email = ToLower(email) /\ u.password = Hash(password)),
        !.fault = (db = "down") ]

\* the facts of a credential whose earlier rotation or logout is of no interest
NoHistory(f) == [f EXCEPT !.reuse = FALSE, !.afterLogout = FALSE, !.prior = NoToken]

AuthResp(op, out, cookie) ==
    [ op |-> op, stage |-> "handler", status |-> out.status, message |-> out.message,
      body |-> out.response, cookie |-> cookie, user |-> NoUser, facts |-> NoFacts ]

\* a guard's decision: a 401 response, or the identity attached to the request
GuardResp(op, g, facts) ==
    [ op |-> op, stage |-> IF g.ok THEN "accepted" ELSE "guard",
      status |-> IF g.ok THEN 0 ELSE g.status, message |-> g.message,
      body |-> NoBody, cookie |-> NoCookie, user |-> g.user, facts |-> facts ]

----------------------------------------------------------------------------
(* Startup *)

EnvSecrets == {Unset, <<ShortSecret>>, <<SecretA>>, <<SecretB>>}

EnvSpans == {Unset, <<TimeStr(1, "s")>>, <<TimeStr(2, "s")>>, <<TimeStr(1, "x")>>}

EnvNodeEnvs ==
    {Unset, <<"production">>, <<"development">>, <<"test">>, <<"staging">>, <<"local">>}

Envs ==
    [ MONGODB_URI : {Unset, <<"mongodb://db/auth">>},
      JWT_SECRET : EnvSecrets, JWT_EXPIRES_IN : EnvSpans,
      JWT_REFRESH_SECRET : EnvSecrets, JWT_REFRESH_EXPIRES_IN : EnvSpans,
      NODE_ENV : EnvNodeEnvs ]

\* the JavaScript value undefined
Undefined == "<undefined>"

NoJar == [access_token |-> <<>>, refresh_token |-> <<>>]

\* no call made yet: method, requests sent, statuses received, credentials sent
NoCall ==
    [ pc |-> "idle", action |-> "none", url |-> <<>>,
      sent |-> [original |-> 0, refresh |-> 0, retry |-> 0],
      status |-> [original |-> 0, refresh |-> 0, retry |-> 0],
      bearer |-> [original |-> Undefined, retry |-> Undefined],
      cookieSent |-> Undefined, issued |-> Undefined,
      result |-> "none", error |-> "", redirected |-> "" ]

NoClient == [jar |-> NoJar, call |-> NoCall]


Quiet ==
    /\ users = {} /\ nextId = 1 /\ now = 0 /\ known = {}
    /\ req = Idle /\ resp = NoResp /\ spent = NoSpent
    /\ db = "up" /\ signups = <<>> /\ client = NoClient

InitBoot == env \in Envs /\ boot = "starting" /\ Quiet

\* ConfigModule.forRoot({validate}) passes and both strategies construct
BootOk ==
    /\ boot = "starting"
    /\ validate(env) /\ JwtStrategySecretOk(config) /\ RefreshStrategySecretOk(config)
    /\ boot' = "running"
    /\ UNCHANGED <<env, users, nextId, now, known, req, resp, spent, db, signups, client>>

\* validate throws or a strategy constructor throws: the process does not boot
BootReject ==
    /\ boot = "starting"
    /\ ~(validate(env) /\ JwtStrategySecretOk(config) /\ RefreshStrategySecretOk(config))
    /\ boot' = "failed"
    /\ UNCHANGED <<env, users, nextId, now, known, req, resp, spent, db, signups, client>>

NextBoot == BootOk \/ BootReject

SpecBoot == InitBoot /\ [][NextBoot]_vars

----------------------------------------------------------------------------
(* Request handling, one request in flight; the guard and the handler of a  *)
(* guarded route are separate steps                                         *)

\* the environments of the running service: they pass validate, with short
\* lifetimes so that tokens expire within MaxTime
AuthEnvs ==
    { e \in Envs :
        /\ validate(e)
        /\ e.JWT_SECRET = <<SecretA>>
        /\ e.JWT_EXPIRES_IN = <<TimeStr(1, "s")>>
        /\ e.JWT_REFRESH_EXPIRES_IN = <<TimeStr(2, "s")>>
        /\ e.NODE_ENV = <<"production">> }

\* the service running with the documented setup: two different secrets
InitAuth ==
    /\ env \in {e \in AuthEnvs : e.JWT_REFRESH_SECRET # e.JWT_SECRET}
    /\ boot = "running" /\ Quiet

\* the service running with any environment that startup validation accepts
InitAnyEnv == env \in AuthEnvs /\ boot = "running" /\ Quiet

\* POST /auth/signup
SignUp(email, password) ==
    /\ boot = "running" /\ req = Idle
    /\ nextId <= MaxUsers
    /\ LET r == signUp(Store, config, nextId, [email |-> email, name |-> "Ann Lee", password |-> password], now)
       IN  /\ users' = IF db = "up" THEN r.store ELSE users
           /\ nextId' = IF r.out.ok THEN nextId + 1 ELSE nextId
           /\ resp' = AuthResp("signup", r.out,
                               IF r.out.ok THEN SetRefreshCookie(config, r.out.refreshToken) ELSE NoCookie)
           /\ Learn(Issued(r.out))
    /\ UNCHANGED <<env, boot, now, req, spent, db, signups, client>>

\* POST /auth/signin, LocalAuthGuard
SignInGuard(email, password) ==
    /\ boot = "running" /\ req = Idle
    /\ LET g == LocalStrategy_validate(Store, email, password)
       IN  /\ req' = IF g.ok THEN [op |-> "signin", user |-> NoUser, doc |-> g.doc] ELSE Idle
           /\ resp' = GuardResp("signin", [g EXCEPT !.doc = NullDoc] @@ [user |-> NoUser],
                                 CredentialFacts(email, password))
    /\ UNCHANGED <<env, boot, users, nextId, now, known, spent, db, signups, client>>

\* POST /auth/signin, AuthController.signIn
SignInHandler ==
    /\ req.op = "signin"
    /\ LET r == signIn(config, req.doc, now)
       IN  /\ resp' = AuthResp("signin", r, SetRefreshCookie(config, r.refreshToken))
           /\ Learn(Issued(r))
    /\ req' = Idle
    /\ UNCHANGED <<env, boot, users, nextId, now, spent, db, signups, client>>

\* POST /auth/refresh, RefreshTokenAuthGuard
RefreshGuard(cookies) ==
    /\ boot = "running" /\ req = Idle
    /\ LET g == RefreshTokenAuthGuard(Store, config, cookies, now)
       IN  /\ req' = IF g.ok THEN [op |-> "refresh", user |-> g.user, doc |-> NullDoc] ELSE Idle
           /\ resp' = GuardResp("refresh", g, Facts(CookieRefreshToken(cookies), config.jwt.refreshSecret[1]))
    /\ UNCHANGED <<env, boot, users, nextId, now, known, spent, db, signups, client>>

\* POST /auth/refresh, AuthController.refresh
RefreshHandler ==
    /\ req.op = "refresh"
    /\ LET r == refreshTokens(Store, config, req.user.userId, req.user.email, now)
       IN  /\ resp' = [AuthResp("refresh", r,
                                IF r.ok THEN SetRefreshCookie(config, r.refreshToken) ELSE NoCookie)
                         EXCEPT !.user = req.user,
                                !.facts = [resp.facts EXCEPT
                                             !.subjectLive = (\E u \in users : u.id = req.user.userId),
                                             !.fault = (db = "down")]]
           /\ spent' = IF r.ok /\ req.user.refreshToken \in KnownTokens
                       THEN [how |-> "rotated", tok |-> req.user.refreshToken, issued |-> r.refreshToken]
                       ELSE spent
           /\ Learn(Issued(r))
    /\ req' = Idle
    /\ UNCHANGED <<env, boot, users, nextId, now, db, signups, client>>

\* GET /users/me, JwtAuthGuard
AccessGuard(header) ==
    /\ boot = "running" /\ req = Idle
    /\ LET g == JwtAuthGuard(Store, config, header, now)
       IN  /\ req' = IF g.ok THEN [op |-> "profile", user |-> g.user, doc |-> NullDoc] ELSE Idle
           /\ resp' = GuardResp("access", g,
                                 NoHistory(Facts(fromAuthHeaderAsBearerToken(header), config.jwt.secret[1])))
    /\ UNCHANGED <<env, boot, users, nextId, now, known, spent, db, signups, client>>

\* GET /users/me, UsersController.getProfile
GetProfile ==
    /\ req.op = "profile"
    /\ LET r == getProfile(Store, req.user.userId)
       IN  resp' = [ op |-> "profile", stage |-> "handler", status |-> r.status,
                     message |-> r.message, body |-> [user |-> r.user, access_token |-> NoToken],
                     cookie |-> NoCookie, user |-> req.user,
                     facts |-> [resp.facts EXCEPT
                                  !.subjectLive = (\E u \in users : u.id = req.user.userId),
                                  !.fault = (db = "down")] ]
    /\ req' = Idle
    /\ UNCHANGED <<env, boot, users, nextId, now, known, spent, db, signups, client>>

\* PATCH /users/me, UsersController.updateProfile (behind the same JwtAuthGuard)
UpdateProfile(dto) ==
    /\ req.op = "profile"
    /\ LET r == updateProfile(Store, req.user.userId, dto)
       IN  /\ resp' = [ op |-> "update", stage |-> "handler", status |-> r.status,
                        message |-> r.message, body |-> [user |-> r.user, access_token |-> NoToken],
                        cookie |-> NoCookie, user |-> req.user,
                        facts |-> [resp.facts EXCEPT
                                     !.subjectLive = (\E u \in users : u.id = req.user.userId),
                                     !.fault = (db = "down")] ]
           /\ users' = IF db = "up" THEN r.store ELSE users
    /\ req' = Idle
    /\ UNCHANGED <<env, boot, nextId, now, known, spent, db, signups, client>>

\* logout that also removes the record of the token's subject
Logout_Purging(cookies) ==
    /\ boot = "running" /\ req = Idle
    /\ resp' = [ NoResp EXCEPT !.op = "logout", !.stage = "handler",
                               !.status = logout(config, cookies).status,
                               !.message = logout(config, cookies).message,
                               !.cookie = logout(config, cookies).cookie ]
    /\ users' = {u \in users : u.id # CookieRefreshToken(cookies).claims.sub}
    /\ UNCHANGED <<env, boot, nextId, now, known, req, spent, db, signups, client>>

\* POST /auth/logout
Logout(cookies) ==
    /\ boot = "running" /\ req = Idle
    /\ LET r == logout(config, cookies)
           presented == CookieRefreshToken(cookies)
       IN  /\ resp' = [ op |-> "logout", stage |-> "handler", status |-> r.status,
                        message |-> r.message, body |-> NoBody, cookie |-> r.cookie,
                        user |-> NoUser,
                        facts |-> [NoHistory(Facts(presented, config.jwt.refreshSecret[1]))
                                     EXCEPT !.wire = IF cookies.defined THEN presented.wire
                                                     ELSE "undefined",
                                            !.issuedAs = {}] ]
           /\ spent' = IF r.status = 200 /\ presented \in KnownTokens
                       THEN [how |-> "logout", tok |-> presented, issued |-> NoToken]
                       ELSE spent
    /\ UNCHANGED <<env, boot, users, nextId, now, known, req, db, signups, client>>

\* the user record disappears from the store (outside this subsystem)
DeleteUser(u) ==
    /\ boot = "running"
    /\ u \in users
    /\ users' = users \ {u}
    /\ UNCHANGED <<env, boot, nextId, now, known, req, resp, spent, db, signups, client>>

\* the clock reaches the next second
Tick ==
    /\ boot = "running"
    /\ now < MaxTime
    /\ now' = now + 1
    /\ UNCHANGED <<env, boot, users, nextId, known, req, resp, spent, db, signups, client>>

Next ==
    \/ \E e \in Emails, p \in {"Secur3!pass"} : SignUp(e, p)
    \/ \E e \in Emails, p \in Passwords : SignInGuard(e, p)
    \/ SignInHandler
    \/ \E c \in Cookies : RefreshGuard(c)
    \/ RefreshHandler
    \/ \E h \in Headers : AccessGuard(h)
    \/ GetProfile
    \/ \E c \in Cookies : Logout(c)
    \/ \E u \in users : DeleteUser(u)
    \/ Tick

Spec == InitAuth /\ [][Next]_vars

SpecAnyEnv == InitAnyEnv /\ [][Next]_vars

----------------------------------------------------------------------------
(* Concurrent sign-ups: each request awaits findByEmail, then awaits create  *)

SignUpEmails == Emails \cup {"c@d.com"}

\* AuthService.signUp up to its existence check
SignUpFindByEmail(p, email) ==
    /\ boot = "running" /\ p \notin DOMAIN signups
    /\ LET dto == [email |-> email, name |-> "Ann Lee", password |-> "Secur3!pass"]
           existingUser == findByEmail(Store, email)
       IN  signups' = signups @@ (p :>
               IF existingUser = DriverError
               THEN [NoSignUp EXCEPT !.pc = "done", !.dto = dto,
                       !.out = Failure(InternalServerError.status, InternalServerError.message)]
               ELSE IF existingUser # NullDoc
               THEN [NoSignUp EXCEPT !.pc = "done", !.dto = dto,
                       !.out = Failure(409, "User with this email already exists")]
               ELSE [NoSignUp EXCEPT !.pc = "checked", !.dto = dto])
    /\ UNCHANGED <<env, boot, users, nextId, now, known, req, resp, spent, db, client>>

\* AuthService.signUp from usersService.create on, and the controller's cookie
SignUpCreate(p) ==
    /\ p \in DOMAIN signups /\ signups[p].pc = "checked"
    /\ LET r == signUpCreate(Store, config, nextId, signups[p].dto, now)
       IN  /\ users' = IF db = "up" THEN r.store ELSE users
           /\ nextId' = IF r.out.ok THEN nextId + 1 ELSE nextId
           /\ signups' = [signups EXCEPT ![p] =
                  [ pc |-> "done", dto |-> signups[p].dto,
                    raced |-> (\E u \in users : u.email = ToLower(signups[p].dto.email)),
                    out |-> r.out,
                    cookie |-> IF r.out.ok THEN SetRefreshCookie(config, r.out.refreshToken)
                               ELSE NoCookie ]]
    /\ UNCHANGED <<env, boot, now, known, req, resp, spent, db, client>>

NextSignUp ==
    \/ \E p \in Procs, e \in SignUpEmails : SignUpFindByEmail(p, e)
    \/ \E p \in Procs : SignUpCreate(p)
    \/ Tick

SpecSignUp == InitAuth /\ [][NextSignUp]_vars

----------------------------------------------------------------------------
(* The database becoming unreachable and reachable again *)

DbDown ==
    /\ boot = "running" /\ db = "up"
    /\ db' = "down"
    /\ UNCHANGED <<env, boot, users, nextId, now, known, req, resp, spent, signups, client>>

DbUp ==
    /\ boot = "running" /\ db = "down"
    /\ db' = "up"
    /\ UNCHANGED <<env, boot, users, nextId, now, known, req, resp, spent, signups, client>>

NextFault ==
    \/ \E e \in Emails, p \in {"Secur3!pass"} : SignUp(e, p)
    \/ \E e \in Emails, p \in Passwords : SignInGuard(e, p)
    \/ SignInHandler
    \/ \E c \in Cookies : RefreshGuard(c)
    \/ RefreshHandler
    \/ \E h \in Headers : AccessGuard(h)
    \/ GetProfile
    \/ DbDown
    \/ DbUp

SpecFault == InitAuth /\ [][NextFault]_vars

----------------------------------------------------------------------------
(* Every route of the API, the profile update included, at one clock value *)

UpdateDtos == {[name |-> Unset], [name |-> <<"Ann Poe">>]}

NextProfile ==
    \/ \E e \in Emails, p \in {"Secur3!pass"} : SignUp(e, p)
    \/ \E e \in Emails, p \in Passwords : SignInGuard(e, p)
    \/ SignInHandler
    \/ \E c \in Cookies : RefreshGuard(c)
    \/ RefreshHandler
    \/ \E h \in Headers : AccessGuard(h)
    \/ GetProfile
    \/ \E d \in UpdateDtos : UpdateProfile(d)
    \/ \E c \in Cookies : Logout(c)
    \/ \E u \in users : DeleteUser(u)

SpecProfile == InitAuth /\ [][NextProfile]_vars

----------------------------------------------------------------------------
(* Cookie attributes under every environment value *)

\* environments accepted by validate, with every NODE_ENV and refresh lifetime
CookieEnvs ==
    { e \in Envs :
        /\ validate(e)
        /\ e.JWT_SECRET = <<SecretA>> /\ e.JWT_REFRESH_SECRET = <<SecretB>>
        /\ e.JWT_EXPIRES_IN = <<TimeStr(1, "s")>> }

InitCookie == env \in CookieEnvs /\ boot = "running" /\ Quiet

NextCookie ==
    \/ \E e \in Emails, p \in {"Secur3!pass"} : SignUp(e, p)
    \/ \E e \in Emails, p \in Passwords : SignInGuard(e, p)
    \/ SignInHandler
    \/ \E c \in Cookies : RefreshGuard(c)
    \/ RefreshHandler
    \/ \E c \in Cookies : Logout(c)

SpecCookie == InitCookie /\ [][NextCookie]_vars

----------------------------------------------------------------------------
(* Frontend: ServerHttpClient and the logout server action.  A URL is the    *)
(* sequence of its path segments; a JSON object is a function on its keys;   *)
(* a cookie of the frontend is <<>> when not stored and <<v>> when stored.   *)

AUTH_ENDPOINTS ==
    [ LOGIN |-> <<"api", "auth", "signin">>,
      REGISTER |-> <<"api", "auth", "signup">>,
      LOGOUT |-> <<"api", "auth", "logout">>,
      REFRESH |-> <<"api", "auth", "refresh">> ]

AUTH_NO_RETRY_ENDPOINTS == {AUTH_ENDPOINTS.LOGIN, AUTH_ENDPOINTS.REGISTER, AUTH_ENDPOINTS.REFRESH}

USER_ENDPOINTS == [ME |-> <<"api", "users", "me">>]

\* url.includes(endpoint)
includes(url, endpoint) ==
    \E i \in 0 .. (Len(url) - Len(endpoint)) : SubSeq(url, i + 1, i + Len(endpoint)) = endpoint

\* an isAuthEndpoint that exempts no URL
isAuthEndpoint_Never(url) == FALSE

isAuthEndpoint(url) == \E endpoint \in AUTH_NO_RETRY_ENDPOINTS : includes(url, endpoint)

\* obj[key] of a parsed JSON object: undefined for a key it does not have
Get(obj, key) == IF key \in DOMAIN obj THEN obj[key] ELSE Undefined

\* JS truthiness of a string-or-undefined value
TruthyValue(v) == v # Undefined /\ v # ""

\* cookieStore.get(name)?.value
CookieValue(jar, name) == IF jar[name] = <<>> THEN Undefined ELSE jar[name][1]

\* TransformResponseInterceptor.intercept: the body as it goes out
intercept(data, message) ==
    IF {"success", "message", "data"} \subseteq DOMAIN data
    THEN data
    ELSE [success |-> TRUE, message |-> message, data |-> data]

\* HttpExceptionFilter.catch: the body of an error response
catch(message, error) == [success |-> FALSE, message |-> message, error |-> error]

\* what fetch resolves to, or that it rejected
HttpResponse(status, json, setCookie) ==
    [rejected |-> FALSE, status |-> status, json |-> json, setCookie |-> setCookie]

NetworkError == [rejected |-> TRUE, status |-> 0, json |-> <<>>, setCookie |-> <<>>]

\* response.ok
Ok(response) == response.status \in 200 .. 299

AccessTokens == {"at1", "at2"}

RefreshTokens == {"rt1", "rt2"}

\* the body and cookie of a successful sign-up, sign-in or refresh
AuthSuccess(status, message, at, rt) ==
    HttpResponse(status,
                 intercept([user |-> "Ann Lee", access_token |-> at], message),
                 <<rt>>)

\* the backend's possible answers to a request to url
BackendResponses(url) ==
    LET success ==
            IF url = AUTH_ENDPOINTS.REGISTER
            THEN {AuthSuccess(201, "User created successfully", at, rt) :
                    at \in AccessTokens, rt \in RefreshTokens}
            ELSE IF url = AUTH_ENDPOINTS.LOGIN
            THEN {AuthSuccess(200, "User signed in successfully", at, rt) :
                    at \in AccessTokens, rt \in RefreshTokens}
            ELSE IF url = AUTH_ENDPOINTS.REFRESH
            THEN {AuthSuccess(200, "Token refreshed successfully", at, rt) :
                    at \in AccessTokens, rt \in RefreshTokens}
            ELSE IF url = AUTH_ENDPOINTS.LOGOUT
            THEN {HttpResponse(200, intercept([message |-> "Logged out successfully"],
                                              "Logged out successfully"), <<>>)}
            ELSE {HttpResponse(200, intercept([name |-> "Ann Lee"],
                                              "Operation completed successfully"), <<>>)}
    IN  success
          \cup {HttpResponse(401, catch("Unauthorized", "UnauthorizedException"), <<>>),
                HttpResponse(500, [statusCode |-> 500, message |-> "Internal server error"], <<>>),
                NetworkError}

ClientUrls ==
    {AUTH_ENDPOINTS.LOGIN, AUTH_ENDPOINTS.REGISTER, AUTH_ENDPOINTS.REFRESH,
     AUTH_ENDPOINTS.LOGOUT, USER_ENDPOINTS.ME}

\* extractAndStoreRefreshToken: the jar after reading the set-cookie header
extractAndStoreRefreshToken(jar, response) ==
    IF response.setCookie # <<>> THEN [jar EXCEPT !.refresh_token = response.setCookie] ELSE jar

\* handleResponse after a successful answer: store data.data.access_token when
\* it is a string
storeAccessToken(jar, json) ==
    IF "data" \in DOMAIN json /\ "access_token" \in DOMAIN json.data
    THEN [jar EXCEPT !.access_token = <<json.data.access_token>>]
    ELSE jar

\* a handleResponse that treats the retried request's answer like the first
handleRetryResponse_Recursive(response, url) ==
    IF response.status = 401 /\ ~isAuthEndpoint(url) THEN "unauthorized" ELSE "done"

\* what handleResponse does with the answer to the retried request: it is
\* returned as the call's value whatever its status
handleRetryResponse(response, url) == "done"

\* a logoutAction whose catch block only logs
logoutActionClear_OnSuccessOnly(jar, failed) ==
    IF failed THEN jar ELSE [jar EXCEPT !.access_token = <<>>, !.refresh_token = <<>>]

\* logoutAction's cookie clearing, in its try block and in its catch block
logoutActionClear(jar, failed) == [jar EXCEPT !.access_token = <<>>, !.refresh_token = <<>>]

\* get/post/put/patch/delete: fetchWithInterceptors, then handleResponse up to
\* the refresh request of handleUnauthorized
ClientRequest(action, url, response) ==
    /\ boot = "running" /\ client.call.pc = "idle"
    /\ LET jar0 == client.jar
           bearer == IF TruthyValue(CookieValue(jar0, "access_token"))
                     THEN CookieValue(jar0, "access_token") ELSE Undefined
           jar1 == IF response.rejected THEN jar0 ELSE extractAndStoreRefreshToken(jar0, response)
           call0 == [ NoCall EXCEPT !.action = action, !.url = url, !.sent.original = 1,
                                     !.status.original = response.status,
                                     !.bearer.original = bearer ]
       IN  client' =
             IF response.rejected
             THEN [jar |-> jar0,
                   call |-> [call0 EXCEPT !.pc = "done", !.result = "error", !.error = "fetch failed"]]
             ELSE IF response.status = 401 /\ ~isAuthEndpoint(url)
             THEN IF ~TruthyValue(CookieValue(jar1, "refresh_token"))
                  THEN [jar |-> jar1,
                        call |-> [call0 EXCEPT !.pc = "done", !.result = "error",
                                                !.error = "No refresh token available"]]
                  ELSE [jar |-> jar1, call |-> [call0 EXCEPT !.pc = "unauthorized"]]
             ELSE IF ~Ok(response)
             THEN [jar |-> jar1,
                   call |-> [call0 EXCEPT !.pc = "done", !.result = "error",
                                           !.error = IF TruthyValue(Get(response.json, "message"))
                                                     THEN Get(response.json, "message")
                                                     ELSE "Request failed"]]
             ELSE [jar |-> storeAccessToken(jar1, response.json),
                   call |-> [call0 EXCEPT !.pc = "done", !.result = "value"]]
    /\ UNCHANGED <<env, boot, users, nextId, now, known, req, resp, spent, db, signups>>

\* handleUnauthorized: the refresh request and what is stored from its answer
ClientRefresh(response) ==
    /\ client.call.pc = "unauthorized"
    /\ client.call.sent.refresh < MaxAttempts
    /\ LET call0 == [ client.call EXCEPT
                        !.sent.refresh = @ + 1, !.status.refresh = response.status,
                        !.cookieSent = CookieValue(client.jar, "refresh_token") ]
       IN  client' =
             IF response.rejected
             THEN [client EXCEPT !.call = [call0 EXCEPT !.pc = "done", !.result = "error",
                                                       !.error = "fetch failed"]]
             ELSE IF ~Ok(response)
             THEN [client EXCEPT !.call = [call0 EXCEPT !.pc = "done", !.result = "error",
                                                       !.error = "Token refresh failed"]]
             ELSE [ jar |-> extractAndStoreRefreshToken(
                              [client.jar EXCEPT !.access_token = <<Get(response.json, "access_token")>>],
                              response),
                    call |-> [call0 EXCEPT !.pc = "retry",
                                            !.issued = response.json.data.access_token] ]
    /\ UNCHANGED <<env, boot, users, nextId, now, known, req, resp, spent, db, signups>>

\* handleUnauthorized: the original request sent again, and its answer returned
ClientRetry(response) ==
    /\ client.call.pc = "retry"
    /\ client.call.sent.retry < MaxAttempts
    /\ LET bearer == IF TruthyValue(CookieValue(client.jar, "access_token"))
                     THEN CookieValue(client.jar, "access_token") ELSE Undefined
           call0 == [ client.call EXCEPT
                        !.sent.retry = @ + 1, !.status.retry = response.status,
                        !.bearer.retry = bearer ]
       IN  client' =
             IF response.rejected
             THEN [client EXCEPT !.call = [call0 EXCEPT !.pc = "done", !.result = "error",
                                                       !.error = "fetch failed"]]
             ELSE IF handleRetryResponse(response, client.call.url) = "done"
             THEN [client EXCEPT !.call = [call0 EXCEPT !.pc = "done", !.result = "value"]]
             ELSE [client EXCEPT !.call = [call0 EXCEPT !.pc = "unauthorized"]]
    /\ UNCHANGED <<env, boot, users, nextId, now, known, req, resp, spent, db, signups>>

\* logoutAction after serverHttpClient.post returned or threw
LogoutActionFinish ==
    /\ client.call.pc = "done" /\ client.call.action = "logout"
    /\ client' = [ jar |-> logoutActionClear(client.jar, client.call.result = "error"),
                   call |-> [client.call EXCEPT !.action = "loggedout", !.redirected = "/login"] ]
    /\ UNCHANGED <<env, boot, users, nextId, now, known, req, resp, spent, db, signups>>

\* the server action or component that made the call has its result
ClientReturn ==
    /\ client.call.pc = "done" /\ client.call.action \in {"call", "loggedout"}
    /\ client' = [client EXCEPT !.call = NoCall]
    /\ UNCHANGED <<env, boot, users, nextId, now, known, req, resp, spent, db, signups>>

NextClient ==
    \/ \E url \in ClientUrls \ {AUTH_ENDPOINTS.LOGOUT} :
          \E r \in BackendResponses(url) : ClientRequest("call", url, r)
    \/ \E r \in BackendResponses(AUTH_ENDPOINTS.LOGOUT) :
          ClientRequest("logout", AUTH_ENDPOINTS.LOGOUT, r)
    \/ \E r \in BackendResponses(AUTH_ENDPOINTS.REFRESH) : ClientRefresh(r)
    \/ \E r \in BackendResponses(client.call.url) : ClientRetry(r)
    \/ LogoutActionFinish
    \/ ClientReturn

SpecClient == InitAuth /\ [][NextClient]_vars

\* every fetch of a call in progress resolves or rejects
SpecClientLive == SpecClient /\ WF_vars(NextClient)

----------------------------------------------------------------------------
(* Claims *)

GuardStage == resp.stage \in {"guard", "accepted"}

IssuedPair ==
    /\ resp.body.access_token.wire = "jwt"
    /\ resp.cookie.action = "set"
    /\ resp.cookie.name = "refresh_token"
    /\ resp.cookie.value.wire = "jwt"

\* C1: under every environment that startup validation accepts, a token issued
\* as a refresh token is never accepted by the access guard, and a token issued
\* as an access token is never accepted by the refresh guard.
C1_KeyspaceIsolation ==
    /\ (resp.op = "access" /\ resp.stage = "accepted") => "refresh" \notin resp.facts.issuedAs
    /\ (resp.op = "refresh" /\ resp.stage = "accepted") => "access" \notin resp.facts.issuedAs

\* C2: startup ends in rejection whenever JWT_SECRET equals JWT_REFRESH_SECRET.
C2_EqualSecretsRejected ==
    (boot # "starting" /\ env.JWT_SECRET = env.JWT_REFRESH_SECRET) => boot = "failed"

\* C3: a token with a valid signature and an expiry still ahead, whose subject
\* the store does not resolve, is answered 401 by the access guard and by the
\* refresh guard, with no identity attached and no handler reached.
C3_DeletedUserRejected ==
    ( /\ resp.op \in {"access", "refresh"} /\ GuardStage
      /\ resp.facts.sigOk /\ resp.facts.clock = "before"
      /\ ~resp.facts.subjectLive )
        => (resp.stage = "guard" /\ resp.status = 401 /\ resp.user = NoUser /\ req = Idle)

C3_Witness ==
    /\ resp.op = "refresh" /\ resp.stage = "guard" /\ resp.status = 401
    /\ resp.facts.sigOk /\ resp.facts.clock = "before" /\ ~resp.facts.subjectLive
    /\ "refresh" \in resp.facts.issuedAs

\* C4: a successful refresh returns a refresh token that differs from the one
\* presented, and when the same token was presented to the preceding successful
\* refresh, from the token that refresh returned.
C4_RotationFresh ==
    (resp.op = "refresh" /\ resp.stage = "handler" /\ resp.status = 200)
        => /\ resp.cookie.value # resp.user.refreshToken
           /\ resp.facts.reuse =>
                 /\ resp.facts.prior # resp.user.refreshToken
                 /\ resp.facts.prior # resp.cookie.value

\* C5: a successful sign-up, sign-in or refresh carries one access token and
\* one refresh token, both with the id and email of the user in the body; every
\* other response carries neither.
C5_BothTokens ==
    /\ (resp.op \in {"signup", "signin", "refresh"} /\ resp.stage = "handler"
            /\ resp.status \in {200, 201})
         => /\ IssuedPair
            /\ resp.body.access_token.claims.sub = resp.body.user._id
            /\ resp.cookie.value.claims.sub = resp.body.user._id
            /\ resp.body.access_token.claims.email = resp.body.user.email
            /\ resp.cookie.value.claims.email = resp.body.user.email
            /\ resp.body.user # NoEntity
    /\ (resp.body.access_token # NoToken) <=> (resp.cookie.action = "set")
    /\ resp.cookie.action = "set" => resp.cookie.value.wire = "jwt"
    /\ resp.body.access_token # NoToken => resp.body.access_token.wire = "jwt"
    /\ (resp.stage = "handler" /\ resp.status \notin {200, 201}) => resp.cookie.action # "set"

C5_Witness ==
    /\ resp.op = "refresh" /\ resp.stage = "handler" /\ resp.status = 200
    /\ IssuedPair
    /\ resp.body.user._id = resp.cookie.value.claims.sub

\* C6: a token whose expiry lies in the past is answered 401 by the access
\* guard and by the refresh guard, whatever its signature and subject.
C6_ExpiredRejected ==
    (resp.op \in {"access", "refresh", "profile"} /\ resp.facts.clock = "past")
        => (resp.stage = "guard" /\ resp.status = 401 /\ resp.user = NoUser /\ req = Idle)

C6_Witness ==
    /\ resp.op = "refresh" /\ resp.stage = "guard" /\ resp.status = 401
    /\ resp.facts.sigOk /\ resp.facts.clock = "past" /\ resp.facts.subjectLive

C8_AfterLogout ==
    /\ (resp.op = "refresh" /\ GuardStage /\ resp.facts.afterLogout
            /\ resp.facts.sigOk /\ resp.facts.clock = "before" /\ resp.facts.subjectLive)
         => (resp.stage = "accepted" /\ req.op = "refresh")
    /\ (resp.op = "refresh" /\ resp.stage = "handler" /\ resp.facts.afterLogout
            /\ resp.facts.subjectLive)
         => (resp.status = 200 /\ IssuedPair)

\* C8: a refresh token presented to a successful logout is still accepted by a
\* later refresh while unexpired with its subject present, and a pair is issued;
\* a logout leaves the store untouched.
C8_LogoutNoRevocation ==
    [][ /\ C8_AfterLogout'
        /\ (resp'.op = "logout" /\ resp' # resp) => (users' = users /\ nextId' = nextId) ]_vars

C8_Witness ==
    /\ resp.op = "refresh" /\ resp.stage = "handler" /\ resp.status = 200
    /\ resp.facts.afterLogout /\ IssuedPair

C10_LogoutNoCookie ==
    (resp.op = "logout" /\ resp.facts.wire \in {"none", "undefined"})
        => /\ resp.status = 401
           /\ resp.message = "No refresh token found"
           /\ resp.cookie = NoCookie

C10_Witness ==
    /\ resp.op = "logout" /\ resp.facts.wire = "undefined"
    /\ resp.status = 401 /\ resp.cookie = NoCookie

\* C11: a sign-up whose email the store already resolves (whatever its letter
\* case) is answered 409 'User with this email already exists' with no body,
\* no token and no cookie, and leaves the store as it was.
C11_DuplicateSignUp ==
    [][ \A p \in Procs :
          ( /\ p \notin DOMAIN signups /\ p \in DOMAIN signups'
            /\ \E u \in users : u.email = ToLower(signups'[p].dto.email) )
            => /\ signups'[p].pc = "done"
               /\ signups'[p].out.status = 409
               /\ signups'[p].out.message = "User with this email already exists"
               /\ signups'[p].out.response = NoBody
               /\ signups'[p].out.refreshToken = NoToken
               /\ signups'[p].cookie = NoCookie
               /\ users' = users /\ nextId' = nextId ]_vars

C11_Witness ==
    \E p, q \in DOMAIN signups :
        /\ signups[p].out.status = 201 /\ signups[q].out.status = 409
        /\ signups[p].dto.email # signups[q].dto.email
        /\ ~signups[q].raced
        /\ Cardinality(users) = 1

\* C12 as stated: a sign-up that passed the existence check and whose create
\* then hit the unique index is answered 409, like an ordinary duplicate.
C12_RaceIsConflict ==
    \A p \in DOMAIN signups :
        (signups[p].pc = "done" /\ signups[p].raced) => signups[p].out.status = 409

\* C13: the store never holds two users with the same lowercased email, every
\* stored email is lowercase, and of the sign-ups for one lowercased email at
\* most one is answered with tokens.
C13_UniqueEmail ==
    /\ \A u, v \in users : u.email = v.email => u = v
    /\ \A u \in users : u.email = ToLower(u.email)
    /\ \A p, q \in DOMAIN signups :
          ( /\ signups[p].out.ok /\ signups[q].out.ok
            /\ ToLower(signups[p].dto.email) = ToLower(signups[q].dto.email) )
            => p = q
    /\ \A p \in DOMAIN signups :
          signups[p].out.ok <=> (signups[p].cookie.action = "set")

C13_Witness ==
    \E p, q \in DOMAIN signups :
        /\ signups[p].out.ok /\ signups[p].cookie.action = "set"
        /\ signups[q].pc = "done" /\ signups[q].raced /\ ~signups[q].out.ok
        /\ ToLower(signups[p].dto.email) = ToLower(signups[q].dto.email)
        /\ Cardinality(users) = 1

\* C14: a refused sign-in is answered 401 'Invalid email or password' with no
\* body, no cookie and no identity, and it is refused exactly when the email
\* and password do not match a stored user; the answer is the same whether or
\* not the email is registered.
C14_SignInIndistinguishable ==
    /\ (resp.op = "signin" /\ GuardStage)
         => ((resp.stage = "guard") <=> ~resp.facts.sigOk)
    /\ (resp.op = "signin" /\ resp.stage = "guard")
         => /\ resp.status = 401
            /\ resp.message = "Invalid email or password"
            /\ resp.body = NoBody /\ resp.cookie = NoCookie /\ resp.user = NoUser
            /\ req = Idle

C14_Witness ==
    /\ resp.op = "signin" /\ resp.stage = "guard" /\ resp.status = 401
    /\ resp.facts.subjectLive /\ ~resp.facts.sigOk

C16_ClearMatchesWrite ==
    [][ ( \/ (resp.cookie.action = "set" /\ resp'.cookie.action = "clear")
          \/ (resp.cookie.action = "clear" /\ resp'.cookie.action = "set") )
          => /\ resp'.cookie.name = resp.cookie.name
             /\ resp'.cookie.httpOnly = resp.cookie.httpOnly
             /\ resp'.cookie.secure = resp.cookie.secure
             /\ resp'.cookie.sameSite = resp.cookie.sameSite
             /\ resp'.cookie.path = resp.cookie.path ]_vars

C16_Witness ==
    /\ resp.op = "logout" /\ resp.cookie.action = "clear"
    /\ spent.how = "logout" /\ spent.tok.wire = "jwt"
    /\ env.NODE_ENV = Unset
    /\ resp.cookie.sameSite = "lax"

\* C17 as stated: the maxAge of a written refresh cookie, in milliseconds, is
\* the lifetime of the refresh token in it (exp - iat, in seconds).
C17_MaxAgeIsLifetime ==
    resp.cookie.action = "set"
        => resp.cookie.maxAge
             = (resp.cookie.value.claims.exp - resp.cookie.value.claims.iat) * 1000

\* C18: the access guard, the refresh guard and the refresh handler answer 401
\* and never 404 when the store has no user for the token's subject.
C18_NotFoundIsUnauthorized ==
    /\ resp.op \in {"access", "refresh"} => resp.status # 404
    /\ ( /\ resp.op \in {"access", "refresh"} /\ GuardStage
         /\ resp.facts.sigOk /\ resp.facts.clock = "before" /\ ~resp.facts.subjectLive )
         => resp.status = 401
    /\ (resp.op = "refresh" /\ resp.stage = "handler" /\ ~resp.facts.subjectLive)
         => /\ resp.status = 401
            /\ resp.message = "Invalid refresh token"
            /\ resp.body = NoBody /\ resp.cookie = NoCookie

C18_Witness ==
    /\ resp.op = "refresh" /\ resp.stage = "handler" /\ resp.status = 401
    /\ ~resp.facts.subjectLive /\ resp.user # NoUser

\* C19 as stated: a sign-in, access check, refresh check or refresh during
\* which the store's query failed is answered 400, 409 or 401.
C19_StoreFailureRecovered ==
    (resp.op \in {"signin", "access", "refresh"} /\ resp.facts.fault)
        => resp.status \in {400, 409, 401}

\* C20 as stated: a request to the protected resource is answered 200 with the
\* user or 401.
C20_ProtectedResource ==
    /\ (resp.op = "access" /\ resp.stage = "guard") => resp.status = 401
    /\ resp.op = "profile"
         => \/ (resp.status = 200 /\ resp.body.user # NoEntity)
            \/ resp.status = 401

\* C21: startup ends in rejection when JWT_SECRET or JWT_REFRESH_SECRET is
\* unset or shorter than 32 characters; each strategy's constructor throws its
\* own message when its secret is unset; unset lifetimes read as 1h and 7d.
C21_SecretsRequired ==
    /\ ( /\ boot # "starting"
         /\ \/ ~IsSet(env.JWT_SECRET) \/ ~IsSet(env.JWT_REFRESH_SECRET)
            \/ Len(env.JWT_SECRET[1]) < 32 \/ Len(env.JWT_REFRESH_SECRET[1]) < 32 )
         => boot = "failed"
    /\ ~IsSet(env.JWT_SECRET)
         => JwtStrategyConstructor(config) = [threw |-> TRUE, message |-> "JWT secret is not configured"]
    /\ ~IsSet(env.JWT_REFRESH_SECRET)
         => RefreshTokenStrategyConstructor(config)
              = [threw |-> TRUE, message |-> "Refresh secret is not configured"]
    /\ ~IsSet(env.JWT_EXPIRES_IN)
         => (config.jwt.expiresIn = TimeStr(1, "h") /\ SpanSeconds(config.jwt.expiresIn) = 3600)
    /\ ~IsSet(env.JWT_REFRESH_EXPIRES_IN)
         => ( /\ config.jwt.refreshExpiresIn = TimeStr(7, "d")
              /\ SpanSeconds(config.jwt.refreshExpiresIn) = 604800 )

C21_Witness ==
    /\ boot = "failed"
    /\ env.JWT_SECRET = <<ShortSecret>> /\ env.JWT_REFRESH_SECRET = <<SecretB>>
    /\ IsSet(env.MONGODB_URI) /\ env.NODE_ENV = Unset
    /\ env.JWT_EXPIRES_IN = Unset /\ env.JWT_REFRESH_EXPIRES_IN = Unset

\* C22: whatever header or cookie is presented, an accepting access guard
\* attaches the token's sub and email and nothing else, and an accepting
\* refresh guard attaches the token's sub and email and the cookie's raw value;
\* the request carries that identity to the handler.
C22_AttachedIdentity ==
    /\ \A h \in Headers :
          JwtAuthGuard(Store, config, h, now).ok
            => JwtAuthGuard(Store, config, h, now).user
                 = [ userId |-> h.token.claims.sub, email |-> h.token.claims.email,
                     refreshToken |-> NoToken ]
    /\ \A c \in Cookies :
          RefreshTokenAuthGuard(Store, config, c, now).ok
            => RefreshTokenAuthGuard(Store, config, c, now).user
                 = [ userId |-> c.refresh_token.claims.sub,
                     email |-> c.refresh_token.claims.email,
                     refreshToken |-> c.refresh_token ]
    /\ (resp.op \in {"access", "refresh"} /\ resp.stage = "accepted")
         => /\ req.user = resp.user
            /\ (resp.op = "access") => req.user.refreshToken = NoToken
            /\ (resp.op = "refresh")
                 => /\ req.user.refreshToken.wire = "jwt"
                    /\ req.user.userId = req.user.refreshToken.claims.sub
                    /\ req.user.email = req.user.refreshToken.claims.email

C22_Witness ==
    /\ resp.op = "refresh" /\ resp.stage = "accepted"
    /\ req.user.refreshToken \in KnownTokens
    /\ req.user.userId = req.user.refreshToken.claims.sub

\* C23: the user object of every response body has the fields _id, email and
\* name and no other, so never the password hash; this holds for sign-up,
\* sign-in, refresh, get-profile and update-profile responses.
C23_NoPasswordOutward ==
    /\ DOMAIN resp.body = {"user", "access_token"}
    /\ DOMAIN resp.body.user = {"_id", "email", "name"}
    /\ resp.body.user # NoEntity
         => /\ resp.op \in {"signup", "signin", "refresh", "profile", "update"}
            /\ resp.status \in {200, 201}

C23_Witness ==
    /\ resp.op = "update" /\ resp.status = 200
    /\ resp.body.user.name = "Ann Poe"
    /\ \E u \in users : u.id = resp.body.user._id /\ u.password = Hash("Secur3!pass")

\* C24: a step changes the store only by a sign-up that creates one user, by a
\* profile update that changes the name of the caller's record, or by the
\* record's removal from outside; sign-in, the guards, refresh, get-profile
\* and logout leave the store and the id counter as they were.
C24_ReadOnlyOperations ==
    [][ /\ (users' # users \/ nextId' # nextId)
             => \/ /\ resp' # resp /\ resp'.op = "signup" /\ resp'.status = 201
                   /\ \E u \in users' : u.id = nextId /\ users' = users \cup {u}
                \/ /\ resp' # resp /\ resp'.op = "update" /\ resp'.status = 200
                   /\ nextId' = nextId
                   /\ \E u \in users, v \in users' :
                         /\ u.id = resp'.user.userId
                         /\ v = [u EXCEPT !.name = v.name]
                         /\ users' = (users \ {u}) \cup {v}
                \/ /\ resp' = resp /\ req' = req /\ nextId' = nextId
                   /\ users' \subseteq users
        /\ (resp' # resp /\ resp'.op \in {"signin", "access", "refresh", "profile", "logout"})
             => (users' = users /\ nextId' = nextId) ]_vars

C24_Witness ==
    /\ resp.op = "logout" /\ resp.status = 200
    /\ spent.how = "logout" /\ spent.tok.wire = "jwt"
    /\ \E u \in users : u.id = spent.tok.claims.sub /\ u.name = "Ann Poe"

\* C25: a refresh whose subject the store no longer resolves when the handler
\* runs, the guard having accepted it, is answered 401 with no body and no
\* cookie, and hands out no token.
C25_RemovedMidRefresh ==
    [][ ( /\ req.op = "refresh" /\ resp' # resp /\ resp'.op = "refresh"
          /\ resp'.stage = "handler"
          /\ ~(\E u \in users : u.id = req.user.userId) )
          => /\ resp'.status = 401
             /\ resp'.body = NoBody
             /\ resp'.cookie.action # "set"
             /\ known' = known /\ users' = users ]_vars

C25_Witness ==
    /\ resp.op = "refresh" /\ resp.stage = "handler" /\ resp.status = 401
    /\ resp.facts.sigOk /\ resp.facts.clock = "before" /\ ~resp.facts.subjectLive
    /\ resp.user.refreshToken \in KnownTokens
    /\ resp.cookie = NoCookie

\* C26: the two tokens a refresh returns carry the stored user's id and email,
\* iat equal to the clock at the refresh and exp equal to that clock plus the
\* keyspace's lifetime, whatever the presented token's expiry was.
C26_FreshLifetime ==
    [][ (resp' # resp /\ resp'.op = "refresh" /\ resp'.stage = "handler" /\ resp'.status = 200)
          => /\ \E u \in users : resp'.body.user = toUserEntity(u)
             /\ resp'.cookie.value.claims
                  = [ sub |-> resp'.body.user._id, email |-> resp'.body.user.email,
                      iat |-> now,
                      exp |-> now + SpanSeconds(config.jwt.refreshExpiresIn) ]
             /\ resp'.body.access_token.claims
                  = [ sub |-> resp'.body.user._id, email |-> resp'.body.user.email,
                      iat |-> now,
                      exp |-> now + SpanSeconds(config.jwt.expiresIn) ] ]_vars

C26_Witness ==
    /\ resp.op = "refresh" /\ resp.stage = "handler" /\ resp.status = 200
    /\ resp.facts.reuse
    /\ resp.cookie.value.claims.exp > resp.user.refreshToken.claims.exp
    /\ resp.cookie.value.claims.exp > resp.facts.prior.claims.exp

\* C27: one call of the HTTP client sends at most one refresh request and at
\* most one retry of the original request whatever statuses come back, a 401
\* to the retry ends the call, and a call in progress always ends with a value
\* or an error.
C27_OneRefreshOneRetry ==
    /\ [](/\ client.call.sent.original <= 1
          /\ client.call.sent.refresh <= 1
          /\ client.call.sent.retry <= 1
          /\ client.call.sent.retry = 1
               => client.call.pc = "done" /\ client.call.sent.refresh = 1
          /\ client.call.pc = "done" => client.call.result \in {"value", "error"})
    /\ (client.call.pc \in {"unauthorized", "retry"} ~> client.call.pc = "done")

C27_Witness ==
    /\ client.call.pc = "done" /\ client.call.action = "call"
    /\ client.call.url = USER_ENDPOINTS.ME
    /\ client.call.status = [original |-> 401, refresh |-> 200, retry |-> 401]
    /\ client.call.sent = [original |-> 1, refresh |-> 1, retry |-> 1]
    /\ client.call.result = "value"

C29_RefreshOnlyWhenDue ==
    /\ ( /\ client.call.url \in AUTH_NO_RETRY_ENDPOINTS
         /\ client.call.status.original = 401 )
         => /\ client.call.pc = "done" /\ client.call.result = "error"
            /\ client.call.sent.refresh = 0 /\ client.call.sent.retry = 0
    /\ client.call.pc = "unauthorized"
         => /\ client.call.status.original = 401
            /\ client.jar.refresh_token # <<>>
    /\ client.call.sent.refresh >= 1
         => /\ client.call.status.original = 401
            /\ TruthyValue(client.call.cookieSent)
    /\ ( /\ client.call.status.original = 401 /\ client.call.pc = "done"
         /\ client.call.sent.refresh = 0 )
         => client.call.result = "error"
    /\ ( /\ client.call.sent.refresh >= 1
         /\ client.call.status.refresh \notin 200 .. 299 )
         => /\ client.call.pc = "done" /\ client.call.result = "error"
            /\ client.call.sent.retry = 0

C29_Witness ==
    /\ client.call.pc = "done" /\ client.call.url = AUTH_ENDPOINTS.REFRESH
    /\ client.call.status.original = 401
    /\ client.jar.refresh_token # <<>>
    /\ client.call.sent.refresh = 0 /\ client.call.result = "error"

\* C30: when logoutAction has finished, neither the access_token nor the
\* refresh_token cookie is stored and the user was redirected to the login
\* route, whether the logout request returned or threw.
C30_LogoutClearsBoth ==
    client.call.action = "loggedout"
      => /\ client.jar = NoJar
         /\ client.call.redirected = "/login"

C30_Witness ==
    /\ client.call.action = "loggedout" /\ client.call.result = "error"
    /\ client.call.status.original = 401
    /\ TruthyValue(client.call.cookieSent) /\ client.call.status.refresh = 500
    /\ client.jar = NoJar /\ client.call.redirected = "/login"

====
